---- MODULE Spec2Model ----
(***************************************************************************)
(* Session scheduler of avoda-desktop (src-tauri/src/main.rs and           *)
(* src-tauri/src/activity_monitor.rs).                                     *)
(*                                                                         *)
(* Processes: the Tauri command handlers (callers), one timer_task per     *)
(* started session, and the rdev listener thread.  Every await point, lock *)
(* acquisition and atomic access of the source is a separate step.         *)
(*                                                                         *)
(* The tokio Mutex around timer_status is fair (FIFO): it is modelled as   *)
(* the queue lockq whose head is the holder.  The mpsc channel of a        *)
(* session is chan[t]; its Sender lives in command_tx (or in the local of  *)
(* a stop_timer that took it), its Receiver lives in the timer_task.       *)
(***************************************************************************)
EXTENDS Integers, Sequences, FiniteSets, TLC

\* ---------------------------------------------------------------- bounds
NumCallers == 2
MaxSessions == 3
MaxShots == 1
MaxCalls == 5
MaxFaultyCalls == 3
MaxActivityCalls == 4
MaxFairCalls == 4
MaxTimedCalls == 3
MaxCaptureCalls == 3
MaxCountingCalls == 3
MaxEvents == 1
MaxTime == 1

\* ------------------------------------------------------ program constants
Capacity == 1

Callers == 1..NumCallers
SessionIds == 1..MaxSessions
NoId == 0
NoTime == -1
Null == -1

TimerStatus == {"Stopped", "Running", "Paused"}
TimerCommand == {"Pause", "Resume", "Stop"}
EventType == {"KeyPress", "ButtonPress", "Other"}
Editions == {2021, 2024}

VARIABLES
  timer_status,        \* AppState.timer_status
  command_tx,          \* AppState.command_tx: NoId = None, t = Sender of chan[t]
  current_session_id,  \* AppState.current_session_id: NoId = None
  session_start_time,  \* AppState.session_start_time: NoTime = None
  key_presses,         \* ActivityCounters.key_presses
  mouse_clicks,        \* ActivityCounters.mouse_clicks
  is_session_active,   \* AppState.is_session_active
  next_id,             \* the next fresh Uuid
  now,                 \* Utc::now()
  calls,               \* commands invoked so far
  events,              \* the input events rdev has delivered: kind and time
  lpc,                 \* the listener's callback: position
  last_emit,           \* payload of the latest timer_status_update event
  archive,             \* screenshot ids with a file in src-tauri/screenshots
  capture_event,       \* the latest new_screenshot or screenshot_error event
  lockq,               \* waiters of timer_status' Mutex, head = holder
  txlock,              \* holder of command_tx's Mutex, NoId = free
  edition,             \* Rust edition of the build (scope of if-let temporaries)
  sessions,            \* table sessions
  screenshots,         \* table screenshots
  cpc, cres, cloc,     \* callers: position, last result, locals
  tpc, is_paused, tpend, tcont, tstamp, \* timer_task: position and locals
  chan                 \* buffered commands of each session's channel

ctlVars == <<timer_status, command_tx, current_session_id, session_start_time, next_id>>
actVars == <<key_presses, mouse_clicks, is_session_active>>
lockVars == <<lockq, txlock, edition>>
dbVars == <<sessions, screenshots>>
callerVars == <<cpc, cres, cloc>>
taskVars == <<tpc, is_paused, tpend, tcont, tstamp>>
inVars == <<now, calls, events, lpc>>
capVars == <<archive, capture_event>>
envVars == <<inVars, last_emit, capVars>>
vars == <<ctlVars, actVars, lockVars, dbVars, callerVars, taskVars, chan, envVars>>

NoRow == [start_time |-> NoTime, end_time |-> Null, key_press_count |-> Null,
          mouse_click_count |-> Null]
NoEvent == [name |-> "none", id |-> NoId]
ScreenshotError == [name |-> "screenshot_error", id |-> NoId]
NewScreenshot(i) == [name |-> "new_screenshot", id |-> i]
NoLocals == [session_id |-> NoId, start_time |-> NoTime, final_key_presses |-> 0,
             final_mouse_clicks |-> 0, tx |-> NoId, status |-> "none", value |-> 0]

\* ------------------------------------------------------------- the Mutex
Proc(c) == c
TaskProc(t) == 0 - t
Holds(p) == lockq # <<>> /\ Head(lockq) = p
Enqueued(q, p) == Append(q, p)
Released(q) == Tail(q)

\* ----------------------------------------------------------- the channel
ReceiverAlive(t) == tpc[t] \notin {"unborn", "done"}
SenderAlive(t) == command_tx = t \/ \E c \in Callers : cloc[c].tx = t
HasRoom(t) == Len(chan[t]) < Capacity
TryRecv(t) ==
  IF chan[t] # <<>> THEN Head(chan[t])
  ELSE IF SenderAlive(t) THEN "Empty" ELSE "Disconnected"

Init ==
  /\ timer_status = "Stopped"
  /\ command_tx = NoId
  /\ current_session_id = NoId
  /\ session_start_time = NoTime
  /\ key_presses = 0
  /\ mouse_clicks = 0
  /\ is_session_active = FALSE
  /\ next_id = 1
  /\ now = 0
  /\ calls = 0
  /\ events = <<>>
  /\ lpc = "wait"
  /\ last_emit = "none"
  /\ archive = {}
  /\ capture_event = NoEvent
  /\ lockq = <<>>
  /\ txlock = NoId
  /\ edition \in Editions
  /\ sessions = [s \in SessionIds |-> NoRow]
  /\ screenshots = <<>>
  /\ cpc = [c \in Callers |-> "idle"]
  /\ cres = [c \in Callers |-> "none"]
  /\ cloc = [c \in Callers |-> NoLocals]
  /\ tpc = [t \in SessionIds |-> "unborn"]
  /\ is_paused = [t \in SessionIds |-> FALSE]
  /\ tpend = [t \in SessionIds |-> "none"]
  /\ tcont = [t \in SessionIds |-> "none"]
  /\ tstamp = [t \in SessionIds |-> NoTime]
  /\ chan = [t \in SessionIds |-> <<>>]

\* A command handler returns: result r, locals dropped.
Return(c, r) ==
  /\ cpc' = [cpc EXCEPT ![c] = "idle"]
  /\ cres' = [cres EXCEPT ![c] = r]
  /\ cloc' = [cloc EXCEPT ![c] = NoLocals]

Goto(c, l) ==
  /\ cpc' = [cpc EXCEPT ![c] = l]
  /\ UNCHANGED cres

\* --------------------------------------------------------------- invoke
\* The frontend invokes a command: the handler starts and asks for the
\* timer_status lock.  Invocations are bounded by budget, fresh session ids
\* by MaxSessions.
Starting == {c \in Callers : cpc[c] \in {"start_lock", "start_reset_keys",
                "start_reset_clicks", "start_enable", "start_session"}}

Invoke(c, op, budget) ==
  /\ cpc[c] = "idle"
  /\ calls < budget
  /\ calls' = calls + 1
  /\ op = "start" => next_id + Cardinality(Starting) <= MaxSessions
  /\ cpc' = [cpc EXCEPT ![c] = op \o "_lock"]
  /\ cres' = [cres EXCEPT ![c] = "pending"]
  /\ lockq' = Enqueued(lockq, Proc(c))
  /\ UNCHANGED <<ctlVars, actVars, txlock, edition, dbVars, cloc, taskVars, chan, now,
                 events, lpc, last_emit, capVars>>

\* ---------------------------------------------------------- start_timer
\* main.rs:235-238: the state check under the timer_status lock.
start_check(c) ==
  /\ cpc[c] = "start_lock"
  /\ Holds(Proc(c))
  /\ IF timer_status # "Stopped"
       THEN /\ Return(c, "AlreadyActive")
            /\ lockq' = Released(lockq)
       ELSE /\ Goto(c, "start_reset_keys")
            /\ UNCHANGED <<cloc, lockq>>
  /\ UNCHANGED <<ctlVars, actVars, txlock, edition, dbVars, taskVars, chan, envVars>>

\* main.rs:243
start_reset_keys(c) ==
  /\ cpc[c] = "start_reset_keys"
  /\ key_presses' = 0
  /\ Goto(c, "start_reset_clicks")
  /\ UNCHANGED <<ctlVars, mouse_clicks, is_session_active, lockVars, dbVars, cloc,
                 taskVars, chan, envVars>>

\* main.rs:244
start_reset_clicks(c) ==
  /\ cpc[c] = "start_reset_clicks"
  /\ mouse_clicks' = 0
  /\ Goto(c, "start_enable")
  /\ UNCHANGED <<ctlVars, key_presses, is_session_active, lockVars, dbVars, cloc,
                 taskVars, chan, envVars>>

\* main.rs:245
start_enable(c) ==
  /\ cpc[c] = "start_enable"
  /\ is_session_active' = TRUE
  /\ Goto(c, "start_session")
  /\ UNCHANGED <<ctlVars, key_presses, mouse_clicks, lockVars, dbVars, cloc,
                 taskVars, chan, envVars>>

\* main.rs:249-255: status, fresh session id and start time, all under the
\* timer_status lock.
start_session(c) ==
  /\ cpc[c] = "start_session"
  /\ timer_status' = "Running"
  /\ current_session_id' = next_id
  /\ session_start_time' = now
  /\ next_id' = next_id + 1
  /\ cloc' = [cloc EXCEPT ![c].session_id = next_id, ![c].start_time = now]
  /\ Goto(c, "start_insert")
  /\ UNCHANGED <<command_tx, actVars, lockVars, dbVars, taskVars, chan, envVars>>

\* main.rs:259-265: INSERT INTO sessions succeeds.
start_insert_ok(c) ==
  /\ cpc[c] = "start_insert"
  /\ sessions' = [sessions EXCEPT ![cloc[c].session_id] =
                    [NoRow EXCEPT !.start_time = cloc[c].start_time]]
  /\ Goto(c, "start_spawn")
  /\ UNCHANGED <<ctlVars, actVars, lockVars, screenshots, cloc, taskVars, chan, envVars>>

\* main.rs:259-264, the insert fails: `?` returns the error and the guard
\* of timer_status is dropped.
start_insert_fail(c) ==
  /\ cpc[c] = "start_insert"
  /\ Return(c, "DbError")
  /\ lockq' = Released(lockq)
  /\ UNCHANGED <<ctlVars, actVars, txlock, edition, dbVars, taskVars, chan, envVars>>

\* main.rs:271-285: a fresh channel, its Sender stored in command_tx (the
\* Sender it replaces is dropped), timer_task spawned, status notified.
start_spawn(c) ==
  /\ cpc[c] = "start_spawn"
  /\ txlock = NoId
  /\ LET t == cloc[c].session_id IN
       /\ command_tx' = t
       /\ chan' = [chan EXCEPT ![t] = <<>>]
       /\ tpc' = [tpc EXCEPT ![t] = "top"]
       /\ is_paused' = [is_paused EXCEPT ![t] = FALSE]
  /\ last_emit' = "Running"
  /\ Return(c, "Ok")
  /\ lockq' = Released(lockq)
  /\ UNCHANGED <<timer_status, current_session_id, session_start_time, next_id,
                 actVars, txlock, edition, dbVars, tpend, tcont, tstamp, inVars, capVars>>

\* ----------------------------------------------------------- stop_timer
\* stop_check with the counting flag cleared before the state check.
stop_check_disables_first(c) ==
  /\ cpc[c] = "stop_lock"
  /\ Holds(Proc(c))
  /\ is_session_active' = FALSE
  /\ IF timer_status = "Stopped"
       THEN /\ Return(c, "AlreadyStopped")
            /\ lockq' = Released(lockq)
       ELSE /\ Goto(c, "stop_disable")
            /\ UNCHANGED <<cloc, lockq>>
  /\ UNCHANGED <<ctlVars, key_presses, mouse_clicks, txlock, edition, dbVars,
                 taskVars, chan, envVars>>

\* main.rs:291-294
stop_check(c) ==
  /\ cpc[c] = "stop_lock"
  /\ Holds(Proc(c))
  /\ IF timer_status = "Stopped"
       THEN /\ Return(c, "AlreadyStopped")
            /\ lockq' = Released(lockq)
       ELSE /\ Goto(c, "stop_disable")
            /\ UNCHANGED <<cloc, lockq>>
  /\ UNCHANGED <<ctlVars, actVars, txlock, edition, dbVars, taskVars, chan, envVars>>

\* main.rs:298
stop_disable(c) ==
  /\ cpc[c] = "stop_disable"
  /\ is_session_active' = FALSE
  /\ Goto(c, "stop_load_keys")
  /\ UNCHANGED <<ctlVars, key_presses, mouse_clicks, lockVars, dbVars, cloc,
                 taskVars, chan, envVars>>

\* main.rs:301
stop_load_keys(c) ==
  /\ cpc[c] = "stop_load_keys"
  /\ cloc' = [cloc EXCEPT ![c].final_key_presses = key_presses]
  /\ Goto(c, "stop_load_clicks")
  /\ UNCHANGED <<ctlVars, actVars, lockVars, dbVars, taskVars, chan, envVars>>

\* main.rs:302
stop_load_clicks(c) ==
  /\ cpc[c] = "stop_load_clicks"
  /\ cloc' = [cloc EXCEPT ![c].final_mouse_clicks = mouse_clicks]
  /\ Goto(c, "stop_update")
  /\ UNCHANGED <<ctlVars, actVars, lockVars, dbVars, taskVars, chan, envVars>>

\* UPDATE sessions SET ... WHERE id = $4 (main.rs:310-321): a row that was
\* never inserted is not created by it.
UpdatedRows(id, end_time, keys, clicks) ==
  IF sessions[id] = NoRow THEN sessions
  ELSE [sessions EXCEPT ![id].end_time = end_time,
                        ![id].key_press_count = keys,
                        ![id].mouse_click_count = clicks]

\* stop_update_ok with session id and start time kept after the update.
stop_update_ok_keeps_id(c) ==
  /\ cpc[c] = "stop_update"
  /\ sessions' = IF current_session_id = NoId THEN sessions
                 ELSE UpdatedRows(current_session_id, now,
                                  cloc[c].final_key_presses,
                                  cloc[c].final_mouse_clicks)
  /\ Goto(c, "stop_take")
  /\ UNCHANGED <<ctlVars, actVars, lockVars, screenshots, cloc, taskVars, chan,
                 envVars>>

\* main.rs:306-329, the update succeeds (or no session id is held): the row
\* is closed, then session id and start time are cleared.
stop_update_ok(c) ==
  /\ cpc[c] = "stop_update"
  /\ sessions' = IF current_session_id = NoId THEN sessions
                 ELSE UpdatedRows(current_session_id, now,
                                  cloc[c].final_key_presses,
                                  cloc[c].final_mouse_clicks)
  /\ current_session_id' = NoId
  /\ session_start_time' = NoTime
  /\ Goto(c, "stop_take")
  /\ UNCHANGED <<timer_status, command_tx, next_id, actVars, lockVars, screenshots,
                 cloc, taskVars, chan, envVars>>

\* stop_update_fail with session id and start time cleared before the update.
stop_update_fail_clears_first(c) ==
  /\ cpc[c] = "stop_update"
  /\ current_session_id # NoId
  /\ current_session_id' = NoId
  /\ session_start_time' = NoTime
  /\ Return(c, "DbError")
  /\ lockq' = Released(lockq)
  /\ UNCHANGED <<timer_status, command_tx, next_id, actVars, txlock, edition, dbVars,
                 taskVars, chan, envVars>>

\* main.rs:307-323, the update fails: `?` returns the error.
stop_update_fail(c) ==
  /\ cpc[c] = "stop_update"
  /\ current_session_id # NoId
  /\ Return(c, "DbError")
  /\ lockq' = Released(lockq)
  /\ UNCHANGED <<ctlVars, actVars, txlock, edition, dbVars, taskVars, chan, envVars>>

\* main.rs:333 and 341-346: command_tx.lock().await.take().  None: the
\* status is forced to Stopped and notified.  Some(tx): the guard of command_tx and the
\* Sender are held for the send.
stop_take(c) ==
  /\ cpc[c] = "stop_take"
  /\ txlock = NoId
  /\ IF command_tx = NoId
       THEN /\ timer_status' = "Stopped"
            /\ last_emit' = "Stopped"
            /\ Return(c, "Ok")
            /\ lockq' = Released(lockq)
            /\ UNCHANGED <<command_tx, txlock>>
       ELSE /\ cloc' = [cloc EXCEPT ![c].tx = command_tx]
            /\ command_tx' = NoId
            /\ txlock' = Proc(c)
            /\ Goto(c, "stop_send")
            /\ UNCHANGED <<timer_status, lockq, last_emit>>
  /\ UNCHANGED <<current_session_id, session_start_time, next_id, actVars, edition,
                 dbVars, taskVars, chan, inVars, capVars>>

\* main.rs:334-340: tx.send(Stop).await.  It waits while the buffer is full;
\* it fails when the Receiver is gone, and the status is forced to Stopped.
stop_send(c) ==
  /\ cpc[c] = "stop_send"
  /\ LET t == cloc[c].tx IN
       IF ~ReceiverAlive(t)
         THEN /\ timer_status' = "Stopped"
              /\ last_emit' = "Stopped"
              /\ UNCHANGED chan
         ELSE /\ HasRoom(t)
              /\ chan' = [chan EXCEPT ![t] = Append(@, "Stop")]
              /\ UNCHANGED <<timer_status, last_emit>>
  /\ Return(c, "Ok")
  /\ lockq' = Released(lockq)
  /\ txlock' = NoId
  /\ UNCHANGED <<command_tx, current_session_id, session_start_time, next_id,
                 actVars, edition, dbVars, taskVars, inVars, capVars>>

\* ------------------------------------------- pause_timer and resume_timer
\* The two handlers differ in the status they require, the command they
\* send and their state error only.
Required(op) == IF op = "pause" THEN "Running" ELSE "Paused"
Command(op) == IF op = "pause" THEN "Pause" ELSE "Resume"
StateError(op) == IF op = "pause" THEN "NotRunning" ELSE "NotPaused"

\* main.rs:355-358 and 381-384
pr_check(c, op) ==
  /\ cpc[c] = op \o "_lock"
  /\ Holds(Proc(c))
  /\ IF timer_status # Required(op)
       THEN /\ Return(c, StateError(op))
            /\ lockq' = Released(lockq)
       ELSE /\ Goto(c, op \o "_tx")
            /\ UNCHANGED <<cloc, lockq>>
  /\ UNCHANGED <<ctlVars, actVars, txlock, edition, dbVars, taskVars, chan, envVars>>

\* main.rs:361 and 367-370 (387, 393-396): command_tx.lock().await.as_ref().
\* Some(tx): the guard of command_tx is held for the send.  None: the
\* handler drops its guard of timer_status; up to edition 2021 the
\* temporary guard of command_tx lives to the end of the if-let-else, from
\* edition 2024 it is dropped before the else block.
pr_tx(c, op) ==
  /\ cpc[c] = op \o "_tx"
  /\ txlock = NoId
  /\ IF command_tx # NoId
       THEN /\ txlock' = Proc(c)
            /\ Goto(c, op \o "_send")
            /\ UNCHANGED lockq
       ELSE /\ txlock' = IF edition = 2021 THEN Proc(c) ELSE NoId
            /\ lockq' = Released(lockq)
            /\ Goto(c, op \o "_relock")
  /\ UNCHANGED <<ctlVars, actVars, edition, dbVars, cloc, taskVars, chan, envVars>>

\* A variant of pr_send_ok in which the handler writes the new status
\* itself.
pr_send_ok_writes_status(c, op) ==
  /\ cpc[c] = op \o "_send"
  /\ ReceiverAlive(command_tx)
  /\ HasRoom(command_tx)
  /\ chan' = [chan EXCEPT ![command_tx] = Append(@, Command(op))]
  /\ timer_status' = IF op = "pause" THEN "Paused" ELSE "Running"
  /\ Return(c, "Ok")
  /\ lockq' = Released(lockq)
  /\ txlock' = NoId
  /\ UNCHANGED <<command_tx, current_session_id, session_start_time, next_id,
                 actVars, edition, dbVars, taskVars, envVars>>

\* main.rs:362-366 (388-392), the command is buffered: Ok, status untouched.
pr_send_ok(c, op) ==
  /\ cpc[c] = op \o "_send"
  /\ ReceiverAlive(command_tx)
  /\ HasRoom(command_tx)
  /\ chan' = [chan EXCEPT ![command_tx] = Append(@, Command(op))]
  /\ Return(c, "Ok")
  /\ lockq' = Released(lockq)
  /\ txlock' = NoId
  /\ UNCHANGED <<ctlVars, actVars, edition, dbVars, taskVars, envVars>>

\* main.rs:362-364 (388-390), the Receiver is gone: map_err and `?` return
\* the error.
pr_send_fail(c, op) ==
  /\ cpc[c] = op \o "_send"
  /\ ~ReceiverAlive(command_tx)
  /\ Return(c, "SendError")
  /\ lockq' = Released(lockq)
  /\ txlock' = NoId
  /\ UNCHANGED <<ctlVars, actVars, edition, dbVars, taskVars, chan, envVars>>

\* main.rs:371 (397): timer_status.lock() is awaited again.
pr_relock(c, op) ==
  /\ cpc[c] = op \o "_relock"
  /\ lockq' = Enqueued(lockq, Proc(c))
  /\ Goto(c, op \o "_force")
  /\ UNCHANGED <<ctlVars, actVars, txlock, edition, dbVars, cloc, taskVars, chan, envVars>>

\* main.rs:371-374 (397-400): the status is forced to Stopped and notified.
pr_force(c, op) ==
  /\ cpc[c] = op \o "_force"
  /\ Holds(Proc(c))
  /\ timer_status' = "Stopped"
  /\ last_emit' = "Stopped"
  /\ Return(c, "ChannelLost")
  /\ lockq' = Released(lockq)
  /\ txlock' = IF txlock = Proc(c) THEN NoId ELSE txlock
  /\ UNCHANGED <<command_tx, current_session_id, session_start_time, next_id,
                 actVars, edition, dbVars, taskVars, chan, inVars, capVars>>

\* ------------------------------------------------------ get_timer_status
\* main.rs:405-407
status_read(c) ==
  /\ cpc[c] = "status_lock"
  /\ Holds(Proc(c))
  /\ Return(c, timer_status)
  /\ lockq' = Released(lockq)
  /\ UNCHANGED <<ctlVars, actVars, txlock, edition, dbVars, taskVars, chan, envVars>>

\* ------------------------------------------------------ get_elapsed_time
\* main.rs:444: the status is cloned and the guard dropped.
elapsed_status(c) ==
  /\ cpc[c] = "elapsed_lock"
  /\ Holds(Proc(c))
  /\ cloc' = [cloc EXCEPT ![c].status = timer_status]
  /\ Goto(c, "elapsed_start")
  /\ lockq' = Released(lockq)
  /\ UNCHANGED <<ctlVars, actVars, txlock, edition, dbVars, taskVars, chan, envVars>>

\* Elapsed that counts while Running only.
Elapsed_running_only(status, start_time, t) ==
  IF status = "Running"
    THEN IF start_time # NoTime
           THEN IF t - start_time > 0 THEN t - start_time ELSE 0
           ELSE 0
    ELSE 0

\* main.rs:447-461
Elapsed(status, start_time, t) ==
  IF status \in {"Running", "Paused"}
    THEN IF start_time # NoTime
           THEN IF t - start_time > 0 THEN t - start_time ELSE 0
           ELSE 0
    ELSE 0

\* main.rs:445-461
elapsed_start(c) ==
  /\ cpc[c] = "elapsed_start"
  /\ cpc' = [cpc EXCEPT ![c] = "idle"]
  /\ cres' = [cres EXCEPT ![c] = "Ok"]
  /\ cloc' = [cloc EXCEPT ![c] =
        [NoLocals EXCEPT !.value = Elapsed(cloc[c].status, session_start_time, now)]]
  /\ UNCHANGED <<ctlVars, actVars, lockVars, dbVars, taskVars, chan, envVars>>

\* ------------------------------------------------------------ timer_task
\* What the loop does after a status write and its notification:
\*   "loop"     falls through to `if !is_paused` (main.rs:201)
\*   "continue" main.rs:209
\*   "capture"  falls through to the second `if !is_paused` (main.rs:215)
\*   "break"    main.rs:187, 197, 211
AfterBranch(t, paused) == IF paused THEN "psleep" ELSE "sleep"

\* main.rs:167-199, the first try_recv of a cycle.
task_top(t) ==
  /\ tpc[t] = "top"
  /\ LET r == TryRecv(t) IN
       /\ chan' = [chan EXCEPT ![t] = IF r \in TimerCommand THEN Tail(@) ELSE @]
       /\ is_paused' = [is_paused EXCEPT ![t] =
             IF r = "Pause" THEN TRUE ELSE IF r = "Resume" THEN FALSE ELSE @]
       /\ tpend' = [tpend EXCEPT ![t] =
             CASE r = "Pause" -> "Paused"
               [] r = "Resume" -> "Running"
               [] r \in {"Stop", "Disconnected"} -> "Stopped"
               [] OTHER -> @]
       /\ tcont' = [tcont EXCEPT ![t] =
             CASE r \in {"Pause", "Resume"} -> "loop"
               [] r \in {"Stop", "Disconnected"} -> "break"
               [] OTHER -> @]
       /\ tpc' = [tpc EXCEPT ![t] =
             IF r = "Empty" THEN AfterBranch(t, is_paused[t]) ELSE "lock"]
  /\ UNCHANGED <<ctlVars, actVars, lockVars, dbVars, callerVars, tstamp, envVars>>

\* timer_status.lock().await of main.rs:171, 178, 184, 194, 209-211: the
\* task joins the waiters of the lock.
task_lock(t) ==
  /\ tpc[t] = "lock"
  /\ lockq' = Enqueued(lockq, TaskProc(t))
  /\ tpc' = [tpc EXCEPT ![t] = "write"]
  /\ UNCHANGED <<ctlVars, actVars, txlock, edition, dbVars, callerVars, is_paused,
                 tpend, tcont, tstamp, chan, envVars>>

\* A variant of task_write in which Paused switches the counting off.
task_write_pauses_counting(t) ==
  /\ tpc[t] = "write"
  /\ Holds(TaskProc(t))
  /\ timer_status' = tpend[t]
  /\ is_session_active' = IF tpend[t] = "Paused" THEN FALSE ELSE is_session_active
  /\ lockq' = Released(lockq)
  /\ tpc' = [tpc EXCEPT ![t] = "emit"]
  /\ UNCHANGED <<command_tx, current_session_id, session_start_time, next_id,
                 key_presses, mouse_clicks, txlock, edition, dbVars, callerVars,
                 is_paused, tpend, tcont, tstamp, chan, envVars>>

\* `*timer_status.lock().await = ...;`: the write, the guard dropped at the
\* end of the statement.
task_write(t) ==
  /\ tpc[t] = "write"
  /\ Holds(TaskProc(t))
  /\ timer_status' = tpend[t]
  /\ lockq' = Released(lockq)
  /\ tpc' = [tpc EXCEPT ![t] = "emit"]
  /\ UNCHANGED <<command_tx, current_session_id, session_start_time, next_id,
                 actVars, txlock, edition, dbVars, callerVars, is_paused, tpend,
                 tcont, tstamp, chan, envVars>>

\* app_handle.emit("timer_status_update", ..).unwrap() succeeds and the
\* loop goes on (main.rs:173, 180, 186-187, 196-197, 209-211).
task_emit(t) ==
  /\ tpc[t] = "emit"
  /\ tpc' = [tpc EXCEPT ![t] =
        CASE tcont[t] = "break" -> "done"
          [] tcont[t] = "continue" -> "top"
          [] tcont[t] = "capture" -> IF is_paused[t] THEN "top" ELSE "cap_begin"
          [] OTHER -> AfterBranch(t, is_paused[t])]
  /\ last_emit' = tpend[t]
  /\ tpend' = [tpend EXCEPT ![t] = "none"]
  /\ tcont' = [tcont EXCEPT ![t] = "none"]
  /\ UNCHANGED <<ctlVars, actVars, lockVars, dbVars, callerVars, is_paused, tstamp,
                 chan, inVars, capVars>>

\* app_handle.emit(..) fails: unwrap() panics, the task ends and its
\* Receiver is dropped.
task_emit_panic(t) ==
  /\ tpc[t] = "emit"
  /\ tpc' = [tpc EXCEPT ![t] = "done"]
  /\ tpend' = [tpend EXCEPT ![t] = "none"]
  /\ tcont' = [tcont EXCEPT ![t] = "none"]
  /\ UNCHANGED <<ctlVars, actVars, lockVars, dbVars, callerVars, is_paused, tstamp,
                 chan, envVars>>

\* main.rs:205-213: the sleep of 4..=10 s is over, the second try_recv.
task_woke(t) ==
  /\ tpc[t] = "sleep"
  /\ LET r == TryRecv(t) IN
       /\ chan' = [chan EXCEPT ![t] = IF r \in TimerCommand THEN Tail(@) ELSE @]
       /\ is_paused' = [is_paused EXCEPT ![t] =
             IF r = "Pause" THEN TRUE ELSE IF r = "Resume" THEN FALSE ELSE @]
       /\ tpend' = [tpend EXCEPT ![t] =
             CASE r = "Pause" -> "Paused"
               [] r = "Resume" -> "Running"
               [] r = "Stop" -> "Stopped"
               [] OTHER -> @]
       /\ tcont' = [tcont EXCEPT ![t] =
             CASE r = "Pause" -> "continue"
               [] r = "Resume" -> "capture"
               [] r = "Stop" -> "break"
               [] OTHER -> @]
       /\ tpc' = [tpc EXCEPT ![t] =
             IF r \in TimerCommand THEN "lock"
             ELSE IF is_paused[t] THEN "top" ELSE "cap_begin"]
  /\ UNCHANGED <<ctlVars, actVars, lockVars, dbVars, callerVars, tstamp, envVars>>

\* main.rs:225: the 500 ms sleep of a paused task is over.
task_psleep(t) ==
  /\ tpc[t] = "psleep"
  /\ tpc' = [tpc EXCEPT ![t] = "top"]
  /\ UNCHANGED <<ctlVars, actVars, lockVars, dbVars, callerVars, is_paused, tpend,
                 tcont, tstamp, chan, envVars>>

\* ------------------------------------------------------ capture_and_save
\* main.rs:61-104: monitors and windows enumerated, the image captured and
\* encoded, capture_time taken.
capture_begin(t) ==
  /\ tpc[t] = "cap_begin"
  /\ tstamp' = [tstamp EXCEPT ![t] = now]
  /\ tpc' = [tpc EXCEPT ![t] = "cap_insert"]
  /\ UNCHANGED <<ctlVars, actVars, lockVars, dbVars, callerVars, is_paused, tpend,
                 tcont, chan, envVars>>

\* main.rs:61, 64, 88, 100, 150: one of these steps fails; timer_task emits
\* screenshot_error and goes on with its loop (main.rs:218-221).
capture_begin_fail(t) ==
  /\ tpc[t] = "cap_begin"
  /\ tpc' = [tpc EXCEPT ![t] = "top"]
  /\ capture_event' = ScreenshotError
  /\ UNCHANGED <<ctlVars, actVars, lockVars, dbVars, callerVars, is_paused, tpend,
                 tcont, tstamp, chan, inVars, last_emit, archive>>

\* The row that INSERT INTO screenshots adds (main.rs:103-121).
Inserted(t) ==
  Append(screenshots, [session_id |-> t, capture_time |-> tstamp[t]])

\* main.rs:107-148: the INSERT succeeds; then, with no await in between,
\* the file <screenshot_id>.png is written and new_screenshot is emitted
\* with the id.
capture_insert(t) ==
  /\ tpc[t] = "cap_insert"
  /\ Len(screenshots) < MaxShots
  /\ screenshots' = Inserted(t)
  /\ archive' = archive \cup {Len(screenshots')}
  /\ capture_event' = NewScreenshot(Len(screenshots'))
  /\ tstamp' = [tstamp EXCEPT ![t] = NoTime]
  /\ tpc' = [tpc EXCEPT ![t] = "top"]
  /\ UNCHANGED <<ctlVars, actVars, lockVars, sessions, callerVars, is_paused, tpend,
                 tcont, chan, inVars, last_emit>>

\* A variant of capture_insert_fail in which the error ends the task.
capture_insert_fail_ends_task(t) ==
  /\ tpc[t] = "cap_insert"
  /\ capture_event' = ScreenshotError
  /\ tstamp' = [tstamp EXCEPT ![t] = NoTime]
  /\ tpc' = [tpc EXCEPT ![t] = "done"]
  /\ UNCHANGED <<ctlVars, actVars, lockVars, dbVars, callerVars, is_paused, tpend,
                 tcont, chan, inVars, last_emit, archive>>

\* main.rs:121: the insert fails; timer_task emits screenshot_error and
\* goes on with its loop (main.rs:218-221).
capture_insert_fail(t) ==
  /\ tpc[t] = "cap_insert"
  /\ capture_event' = ScreenshotError
  /\ tstamp' = [tstamp EXCEPT ![t] = NoTime]
  /\ tpc' = [tpc EXCEPT ![t] = "top"]
  /\ UNCHANGED <<ctlVars, actVars, lockVars, dbVars, callerVars, is_paused, tpend,
                 tcont, chan, inVars, last_emit, archive>>

\* A variant of capture_file_fail in which new_screenshot is emitted all
\* the same.
capture_file_fail_still_notifies(t) ==
  /\ tpc[t] = "cap_insert"
  /\ Len(screenshots) < MaxShots
  /\ screenshots' = Inserted(t)
  /\ capture_event' = NewScreenshot(Len(screenshots'))
  /\ tstamp' = [tstamp EXCEPT ![t] = NoTime]
  /\ tpc' = [tpc EXCEPT ![t] = "top"]
  /\ UNCHANGED <<ctlVars, actVars, lockVars, sessions, callerVars, is_paused, tpend,
                 tcont, chan, inVars, last_emit, archive>>

\* main.rs:130, 136: the INSERT succeeds, create_dir_all or fs::write
\* fails; screenshot_error, the loop goes on.
capture_file_fail(t) ==
  /\ tpc[t] = "cap_insert"
  /\ Len(screenshots) < MaxShots
  /\ screenshots' = Inserted(t)
  /\ capture_event' = ScreenshotError
  /\ tstamp' = [tstamp EXCEPT ![t] = NoTime]
  /\ tpc' = [tpc EXCEPT ![t] = "top"]
  /\ UNCHANGED <<ctlVars, actVars, lockVars, sessions, callerVars, is_paused, tpend,
                 tcont, chan, inVars, last_emit, archive>>

\* main.rs:146: the INSERT and the write succeed, the emit of
\* new_screenshot fails; screenshot_error, the loop goes on.
capture_notify_fail(t) ==
  /\ tpc[t] = "cap_insert"
  /\ Len(screenshots) < MaxShots
  /\ screenshots' = Inserted(t)
  /\ archive' = archive \cup {Len(screenshots')}
  /\ capture_event' = ScreenshotError
  /\ tstamp' = [tstamp EXCEPT ![t] = NoTime]
  /\ tpc' = [tpc EXCEPT ![t] = "top"]
  /\ UNCHANGED <<ctlVars, actVars, lockVars, sessions, callerVars, is_paused, tpend,
                 tcont, chan, inVars, last_emit>>

\* ------------------------------------------------- activity_monitor::listen
\* activity_monitor.rs:28-32: rdev calls the callback with the next input
\* event, and the callback loads is_session_active.
listen_event(k) ==
  /\ lpc = "wait"
  /\ Len(events) < MaxEvents
  /\ events' = Append(events, [kind |-> k, time |-> now])
  /\ lpc' = IF is_session_active THEN "add" ELSE "wait"
  /\ UNCHANGED <<ctlVars, actVars, lockVars, dbVars, callerVars, taskVars, chan,
                 now, calls, last_emit, capVars>>

\* activity_monitor.rs:34-47: the fetch_add chosen by the event's type.
listen_add ==
  /\ lpc = "add"
  /\ LET k == events[Len(events)].kind IN
       /\ key_presses' = IF k = "KeyPress" THEN key_presses + 1 ELSE key_presses
       /\ mouse_clicks' = IF k = "ButtonPress" THEN mouse_clicks + 1 ELSE mouse_clicks
  /\ lpc' = "wait"
  /\ UNCHANGED <<ctlVars, is_session_active, lockVars, dbVars, callerVars, taskVars,
                 chan, now, calls, events, last_emit, capVars>>

ListenerStep ==
  \/ \E k \in EventType : listen_event(k)
  \/ listen_add

\* ------------------------------------------------------------- the clock
\* Utc::now() advances.
Tick ==
  /\ now < MaxTime
  /\ now' = now + 1
  /\ UNCHANGED <<ctlVars, actVars, lockVars, dbVars, callerVars, taskVars, chan,
                 calls, events, lpc, last_emit, capVars>>

\* ------------------------------------------------------ the specification
Ops == {"start", "stop", "pause", "resume", "status", "elapsed"}

\* The steps of start_timer and stop_timer.
SessionStep(c) ==
  \/ start_check(c) \/ start_reset_keys(c) \/ start_reset_clicks(c)
  \/ start_enable(c) \/ start_session(c) \/ start_insert_ok(c) \/ start_spawn(c)
  \/ stop_check(c) \/ stop_disable(c) \/ stop_load_keys(c) \/ stop_load_clicks(c)
  \/ stop_update_ok(c) \/ stop_take(c) \/ stop_send(c)

\* The steps of pause_timer and resume_timer.
PauseResumeStep(c) ==
  \E op \in {"pause", "resume"} :
     \/ pr_check(c, op) \/ pr_tx(c, op) \/ pr_send_ok(c, op)
     \/ pr_relock(c, op) \/ pr_force(c, op)

\* The steps of get_timer_status and get_elapsed_time.
QueryStep(c) ==
  \/ status_read(c)
  \/ elapsed_status(c) \/ elapsed_start(c)

CallerStep(c, budget) ==
  \/ \E op \in Ops : Invoke(c, op, budget)
  \/ SessionStep(c)
  \/ PauseResumeStep(c)
  \/ QueryStep(c)

\* The steps in which the database, the notification channel of the
\* frontend or the screen capture fails.
CallerFault(c) ==
  \/ start_insert_fail(c)
  \/ stop_update_fail(c)
  \/ \E op \in {"pause", "resume"} : pr_send_fail(c, op)

TaskStep(t) ==
  \/ task_top(t) \/ task_lock(t) \/ task_write(t) \/ task_emit(t)
  \/ task_woke(t) \/ task_psleep(t)
  \/ capture_begin(t) \/ capture_insert(t)

\* The step in which the notification channel fails under timer_task.
TaskFault(t) == task_emit_panic(t)

\* The steps in which capture_and_save fails.
CaptureFault(t) ==
  \/ capture_begin_fail(t) \/ capture_insert_fail(t)
  \/ capture_file_fail(t) \/ capture_notify_fail(t)

\* Every behaviour of up to MaxFaultyCalls invocations in which the
\* commands and the notification of the status may fail.
Next ==
  \/ \E c \in Callers : CallerStep(c, MaxFaultyCalls) \/ CallerFault(c)
  \/ \E t \in SessionIds : TaskStep(t) \/ TaskFault(t)

\* The behaviours in which nothing fails, of up to MaxCalls invocations.
NextReliable ==
  \/ \E c \in Callers : CallerStep(c, MaxCalls)
  \/ \E t \in SessionIds : TaskStep(t)

\* One frontend that invokes the four commands that change the session one
\* after the other, nothing failing, with the listener thread and the
\* clock: up to MaxActivityCalls invocations and MaxEvents input events.
Frontend == 1

NextActivity ==
  \/ \E c \in {Frontend} :
        \/ \E op \in {"start", "stop", "pause", "resume"} :
              Invoke(c, op, MaxActivityCalls)
        \/ SessionStep(c)
        \/ PauseResumeStep(c)
  \/ \E t \in SessionIds : TaskStep(t)
  \/ ListenerStep
  \/ Tick

\* The four commands that change the session, up to MaxFairCalls
\* invocations; only the insert of a screenshot may fail.
Commands == {"start", "stop", "pause", "resume"}

NextCommands ==
  \/ \E c \in Callers :
        \/ \E op \in Commands : Invoke(c, op, MaxFairCalls)
        \/ SessionStep(c)
        \/ PauseResumeStep(c)
  \/ \E t \in SessionIds : TaskStep(t) \/ capture_insert_fail(t)

\* The tokio runtime runs every handler and every task that can take a step;
\* a sleep ends.  Nothing obliges the frontend to invoke a command.
Fairness ==
  /\ \A c \in Callers : WF_vars(SessionStep(c) \/ PauseResumeStep(c))
  /\ \A t \in SessionIds : WF_vars(TaskStep(t) \/ capture_insert_fail(t))

\* The frontend invokes start, stop and pause one after the other while
\* elapsed is polled by every caller, with the clock, nothing failing: up
\* to MaxTimedCalls invocations.
NextTimed ==
  \/ \E op \in {"start", "stop", "pause"} : Invoke(Frontend, op, MaxTimedCalls)
  \/ \E c \in Callers :
        \/ Invoke(c, "elapsed", MaxTimedCalls)
        \/ SessionStep(c)
        \/ PauseResumeStep(c)
        \/ elapsed_status(c) \/ elapsed_start(c)
  \/ \E t \in SessionIds : TaskStep(t)
  \/ Tick

\* The frontend invokes the four commands one after the other and
\* capture_and_save may fail: up to MaxCaptureCalls invocations.
NextCapture ==
  \/ \E c \in {Frontend} :
        \/ \E op \in Commands : Invoke(c, op, MaxCaptureCalls)
        \/ SessionStep(c)
        \/ PauseResumeStep(c)
  \/ \E t \in SessionIds : TaskStep(t) \/ CaptureFault(t)

\* The frontend invokes the four commands one after the other while the
\* listener thread runs, nothing failing: up to MaxCountingCalls
\* invocations and MaxEvents input events.
NextCounting ==
  \/ \E c \in {Frontend} :
        \/ \E op \in Commands : Invoke(c, op, MaxCountingCalls)
        \/ SessionStep(c)
        \/ PauseResumeStep(c)
  \/ \E t \in SessionIds : TaskStep(t)
  \/ ListenerStep

Spec == Init /\ [][Next]_vars
SpecCapture == Init /\ [][NextCapture]_vars
SpecCounting == Init /\ [][NextCounting]_vars
SpecReliable == Init /\ [][NextReliable]_vars
SpecActivity == Init /\ [][NextActivity]_vars
SpecTimed == Init /\ [][NextTimed]_vars
SpecFair == Init /\ [][NextCommands]_vars /\ Fairness

\* ================================================================ claims
Alive(t) == tpc[t] \notin {"unborn", "done"}
OpenSessions == {s \in SessionIds : sessions[s] # NoRow /\ sessions[s].end_time = Null}
Idle == \A c \in Callers : cpc[c] = "idle"

\* C1: at most one capture scheduler task (timer_task) is alive at any
\* time.  A task that has made its last status write and has only its last
\* notification left before it returns is not counted.
Scheduling(t) == Alive(t) /\ ~(tpc[t] = "emit" /\ tcont[t] = "break")
C1_AtMostOneScheduler == Cardinality({t \in SessionIds : Scheduling(t)}) <= 1

\* C2: a call that violates the current state returns its state error and
\* has no side effect: status, session id, start time, counters, counting
\* flag, command queue and persisted rows are unchanged by it.
C2_Violates(c) ==
  /\ Holds(Proc(c))
  /\ \/ cpc[c] = "start_lock" /\ timer_status # "Stopped"
     \/ cpc[c] = "stop_lock" /\ timer_status = "Stopped"
     \/ cpc[c] = "pause_lock" /\ timer_status # "Running"
     \/ cpc[c] = "resume_lock" /\ timer_status # "Paused"

C2_Error(c) ==
  CASE cpc[c] = "start_lock" -> "AlreadyActive"
    [] cpc[c] = "stop_lock" -> "AlreadyStopped"
    [] cpc[c] = "pause_lock" -> "NotRunning"
    [] OTHER -> "NotPaused"

C2_StateErrorHasNoEffect ==
  [][\A c \in Callers :
       C2_Violates(c) /\ cpc'[c] # cpc[c] =>
         /\ cpc'[c] = "idle"
         /\ cres'[c] = C2_Error(c)
         /\ UNCHANGED <<timer_status, current_session_id, session_start_time,
                        key_presses, mouse_clicks, is_session_active, command_tx,
                        chan, sessions, screenshots>>]_vars

\* C2 witness: stop() was rejected on a Stopped timer after a session was
\* started and stopped, its row persisted.
C2_Witness ==
  \E c \in Callers :
    /\ cpc[c] = "idle" /\ cres[c] = "AlreadyStopped"
    /\ timer_status = "Stopped"
    /\ \E s \in SessionIds : sessions[s] # NoRow /\ sessions[s].end_time # Null

\* C3: TimerStatus starts as Stopped and every change of its value is an
\* edge of the automaton; Stopped->Running happens in start() only.
Edges == {<<"Stopped", "Running">>, <<"Running", "Paused">>, <<"Paused", "Running">>,
          <<"Running", "Stopped">>, <<"Paused", "Stopped">>}

C3_StatusFollowsAutomaton ==
  [][timer_status' # timer_status =>
       /\ <<timer_status, timer_status'>> \in Edges
       /\ timer_status = "Stopped" => \E c \in Callers : cpc[c] = "start_session"]_vars

\* C4: whenever no controller operation is in progress, a session id is
\* held iff TimerStatus is not Stopped.
C4_SessionIdIffNotStopped ==
  Idle => (current_session_id # NoId <=> timer_status # "Stopped")

\* C5: a screenshot row is only ever created while TimerStatus is Running.
C5_ScreenshotOnlyWhileRunning ==
  [][screenshots' # screenshots => timer_status = "Running"]_vars

\* C6: at most one persisted session row has end_time unset.
C6_AtMostOneOpenSession == Cardinality(OpenSessions) <= 1

\* C7: when the insert of the session row fails, start() returns the error
\* and TimerStatus is left Stopped.
C7_FailedStartLeavesStopped ==
  [][\A c \in Callers :
       cpc[c] = "start_insert" /\ cres'[c] = "DbError" =>
         timer_status' = "Stopped"]_vars

\* C8: when the update of the session row fails, stop() returns the error
\* and the session stays open: status unchanged and not Stopped, session id
\* and start time retained, no Stop sent, nothing persisted.
C8_FailedStopKeepsSessionOpen ==
  [][\A c \in Callers :
       cpc[c] = "stop_update" /\ cres'[c] = "DbError" =>
         /\ cpc'[c] = "idle"
         /\ timer_status' = timer_status /\ timer_status' # "Stopped"
         /\ current_session_id' = current_session_id /\ current_session_id' # NoId
         /\ session_start_time' = session_start_time /\ session_start_time' # NoTime
         /\ UNCHANGED <<command_tx, chan, sessions>>
         /\ sessions[current_session_id].end_time = Null]_vars

\* C8 witness: stop() has returned the DB error while the session row is
\* open, its id still held and its scheduler still has its Sender.
C8_Witness ==
  \E c \in Callers :
    /\ cpc[c] = "idle" /\ cres[c] = "DbError"
    /\ ~is_session_active
    /\ current_session_id \in OpenSessions
    /\ command_tx = current_session_id
    /\ chan[command_tx] = <<>>

\* C9: when pause() or resume() passed its state check and the command
\* cannot be delivered (no Sender, or the Receiver was dropped), the status
\* is forced to Stopped and a channel-lost error is returned.
C9_UndeliveredForcesStopped ==
  [][\A c \in Callers :
       /\ cpc[c] \in {"pause_send", "resume_send", "pause_force", "resume_force"}
       /\ cpc'[c] = "idle"
       /\ cres'[c] # "Ok"
       => timer_status' = "Stopped" /\ cres'[c] = "ChannelLost"]_vars

\* C10: no caller is ever suspended on a full command queue, nor on the
\* status lock held by a caller that is suspended on a full command queue.
SendTarget(c) == IF cpc[c] = "stop_send" THEN cloc[c].tx ELSE command_tx
SuspendedOnQueue(c) ==
  /\ cpc[c] \in {"stop_send", "pause_send", "resume_send"}
  /\ ReceiverAlive(SendTarget(c))
  /\ ~HasRoom(SendTarget(c))

C10_NoCallerWaitsForScheduler ==
  \A c \in Callers :
    /\ ~SuspendedOnQueue(c)
    /\ \A d \in Callers :
         ~(SuspendedOnQueue(d) /\ Holds(Proc(d)) /\ cpc[c] # "idle"
            /\ \E i \in 2..Len(lockq) : lockq[i] = Proc(c))

\* Events of kind k that the listener was called with at a time in from..to.
Heard(k, from, to) ==
  Cardinality({i \in 1..Len(events) :
                 /\ events[i].kind = k
                 /\ from <= events[i].time
                 /\ events[i].time <= to})

\* The latest end_time of the sessions that were started before s and are
\* closed: s was started after it.
Max(S) == CHOOSE x \in S : \A y \in S : y <= x
PrevEnd(s) ==
  Max({0} \cup {sessions[r].end_time : r \in {q \in SessionIds : q < s /\ sessions[q].end_time # Null}})

\* C11: the counts persisted by stop() are no more than the key-down and
\* button-down events the listener observed from the end of the previous
\* session to the end of this one: events observed before start() or after
\* stop() are not included.
C11_PersistedCountsWithinSession ==
  \A s \in SessionIds :
    sessions[s].end_time # Null =>
      /\ sessions[s].key_press_count
            <= Heard("KeyPress", PrevEnd(s), sessions[s].end_time)
      /\ sessions[s].mouse_click_count
            <= Heard("ButtonPress", PrevEnd(s), sessions[s].end_time)

\* C12: no increment lands after start() has reset a counter and before it
\* enables counting: with the flag still false, such an increment belongs
\* to an event the listener began handling during an earlier session.
C12_NoStaleIncrementAfterReset ==
  [][\A c \in Callers :
       /\ cpc[c] \in {"start_reset_clicks", "start_enable"} /\ ~is_session_active
            => key_presses' = key_presses
       /\ cpc[c] = "start_enable" /\ ~is_session_active
            => mouse_clicks' = mouse_clicks]_vars

\* C13: no increment is applied to a counter between stop()'s disabling of
\* the flag and its read of that counter, so the value it persists is the
\* value at the moment counting was disabled.
C13_SnapshotAtDisable ==
  [][\A c \in Callers :
       /\ cpc[c] = "stop_load_keys" => key_presses' <= key_presses
       /\ cpc[c] \in {"stop_load_keys", "stop_load_clicks"}
            => mouse_clicks' <= mouse_clicks]_vars

\* C14: key_presses and mouse_clicks never grow in a step taken in a state
\* where the counting flag is false.
C14_IncreaseOnlyWhileEnabled ==
  [][key_presses' > key_presses \/ mouse_clicks' > mouse_clicks
       => is_session_active]_vars

\* C15: every persisted screenshot has a capture_time that is not earlier
\* than the start_time and, once the session is closed, not later than the
\* end_time of the session it references.
C15_CaptureTimeWithinSession ==
  \A i \in 1..Len(screenshots) :
    LET shot == screenshots[i]
        row == sessions[shot.session_id]
    IN  /\ row # NoRow
        /\ row.start_time <= shot.capture_time
        /\ row.end_time # Null => shot.capture_time <= row.end_time

\* C16: under fair scheduling every command that was sent successfully is
\* consumed and applied: a buffered Pause leads to status Paused, a buffered
\* Resume to status Running, a buffered Stop to status Stopped and to the
\* end of the timer_task it was sent to.
Buffered(t, cmd) == \E i \in 1..Len(chan[t]) : chan[t][i] = cmd

C16_SentCommandsAreApplied ==
  \A t \in SessionIds :
    /\ Buffered(t, "Pause") ~> timer_status = "Paused"
    /\ Buffered(t, "Resume") ~> timer_status = "Running"
    /\ Buffered(t, "Stop") ~> timer_status = "Stopped"
    /\ Buffered(t, "Stop") ~> tpc[t] = "done"

\* C17: a session row is changed only once after its insert: by the update
\* step of a stop() that holds its id, which sets end_time and both counts
\* of the open row and gives up the id; a closed row is never written again.
C17_SessionRowClosedOnce ==
  [][\A s \in SessionIds :
       sessions[s] # NoRow /\ sessions'[s] # sessions[s] =>
         /\ sessions[s].end_time = Null
         /\ sessions[s].key_press_count = Null
         /\ sessions[s].mouse_click_count = Null
         /\ \E c \in Callers : cpc[c] = "stop_update" /\ cpc'[c] = "stop_take"
         /\ current_session_id = s /\ current_session_id' = NoId
         /\ sessions'[s].start_time = sessions[s].start_time
         /\ sessions'[s].end_time = now
         /\ sessions'[s].key_press_count # Null
         /\ sessions'[s].mouse_click_count # Null]_vars

\* C17 witness: a later stop() is at its update while a session row closed
\* at an earlier time exists.
C17_Witness ==
  \E c \in Callers :
    /\ cpc[c] = "stop_update"
    /\ \E s \in SessionIds : sessions[s].end_time # Null /\ sessions[s].end_time < now

\* C18: elapsed() returns 0 when no start time is held (after stop()) and
\* the clock's distance from the start time when the status it read is
\* Running or Paused, so it is 0 right after start() and grows with the
\* clock, paused or not; the start time changes in start(), to the clock's
\* value, and in stop() only.
C18_ElapsedFollowsClock ==
  [][/\ \A c \in Callers :
          cpc[c] = "elapsed_start" /\ cpc'[c] = "idle" =>
            /\ session_start_time = NoTime => cloc'[c].value = 0
            /\ cloc[c].status \in {"Running", "Paused"} /\ session_start_time # NoTime
                 => cloc'[c].value = now - session_start_time
     /\ session_start_time' # session_start_time =>
            \/ \E c \in Callers : cpc[c] = "start_session" /\ session_start_time' = now
            \/ \E c \in Callers : cpc[c] = "stop_update" /\ session_start_time' = NoTime]_vars

\* C18 witness: elapsed() has returned a positive value while the status
\* is Paused.
C18_Witness ==
  \E c \in Callers :
    /\ cpc[c] = "idle" /\ cres[c] = "Ok"
    /\ cloc[c].value > 0
    /\ timer_status = "Paused"

\* C19: a status write and its notification are one unit, so whenever no
\* transition is in progress (no handler is running and no timer_task is
\* between receiving a command and notifying it) the latest notification
\* equals the current status.
InTransition ==
  \/ ~Idle
  \/ \E t \in SessionIds : tpc[t] \in {"lock", "write", "emit"}

C19_LatestNotificationIsStatus ==
  ~InTransition /\ last_emit # "none" => last_emit = timer_status

\* C20: from the moment pause() has returned successfully, its Pause
\* buffered for the session's timer_task, that task starts no capture and
\* inserts no screenshot until it has applied the Pause.
C20_NoCaptureAfterPauseAccepted ==
  [][\A t \in SessionIds :
       Buffered(t, "Pause") =>
         /\ ~(tpc[t] = "cap_begin" /\ tpc'[t] = "cap_insert")
         /\ ~(tpc[t] = "cap_insert" /\ screenshots' # screenshots)]_vars

\* C21: the two checks of the command queue in a cycle of timer_task mean
\* the same: a Stop or a disconnected queue found at the check at the top
\* of the loop (main.rs:167) or at the check after the sleep (main.rs:208)
\* makes the task write Stopped and leave its loop, and it starts no
\* capture in that cycle.
C21_BothChecksEndOnStopOrDisconnect ==
  [][\A t \in SessionIds :
       /\ tpc[t] \in {"top", "sleep"}
       /\ tpc'[t] # tpc[t]
       /\ TryRecv(t) \in {"Stop", "Disconnected"}
       => /\ tpc'[t] = "lock"
          /\ tpend'[t] = "Stopped"
          /\ tcont'[t] = "break"]_vars

\* The step in which capture_and_save of timer_task t returns Ok: a row is
\* inserted, its file is written and new_screenshot carries its id.
CaptureSucceeds(t) ==
  /\ tpc[t] = "cap_insert"
  /\ Len(screenshots') = Len(screenshots) + 1
  /\ Len(screenshots') \in archive'
  /\ capture_event' = NewScreenshot(Len(screenshots'))

\* The step in which capture_and_save of timer_task t returns Err.
CaptureFails(t) ==
  /\ tpc[t] \in {"cap_begin", "cap_insert"}
  /\ tpc'[t] # tpc[t]
  /\ ~(tpc[t] = "cap_begin" /\ tpc'[t] = "cap_insert")
  /\ ~CaptureSucceeds(t)

\* C22: a capture that fails ends neither timer_task nor the session:
\* screenshot_error is emitted, the status, the session id, the Sender and
\* the command queue stay as they are, no status is notified, and the task
\* goes on with its next cycle.
C22_FailedCaptureKeepsScheduler ==
  [][\A t \in SessionIds :
       CaptureFails(t) =>
         /\ capture_event' = ScreenshotError
         /\ tpc'[t] = "top"
         /\ is_paused'[t] = is_paused[t]
         /\ UNCHANGED <<timer_status, current_session_id, command_tx, chan,
                        last_emit>>]_vars

\* C22 witness: after a failed capture the task of the running session is
\* at the insert of a later cycle, which can succeed.
C22_Witness ==
  \E t \in SessionIds :
    /\ capture_event = ScreenshotError
    /\ tpc[t] = "cap_insert"
    /\ Len(screenshots) < MaxShots
    /\ timer_status = "Running" /\ current_session_id = t

\* C23: capture_and_save stops at its first failure.  A file exists only
\* for a persisted row and new_screenshot names only a row whose file is
\* written; a failure before the insert (enumeration, capture, encoding)
\* or of the insert leaves no row and no file; a failure of the write
\* leaves no file; and none of them emits new_screenshot.
C23_CaptureStopsAtFirstFailure ==
  /\ [](/\ archive \subseteq 1..Len(screenshots)
        /\ capture_event.name = "new_screenshot" => capture_event.id \in archive)
  /\ [][\A t \in SessionIds :
          /\ tpc[t] = "cap_begin" /\ tpc'[t] = "top"
               => /\ UNCHANGED <<screenshots, archive>>
                  /\ capture_event'.name # "new_screenshot"
          /\ tpc[t] = "cap_insert" /\ tpc'[t] # tpc[t] /\ screenshots' = screenshots
               => /\ archive' = archive
                  /\ capture_event'.name # "new_screenshot"
          /\ tpc[t] = "cap_insert" /\ tpc'[t] # tpc[t] /\ archive' = archive
               => capture_event'.name # "new_screenshot"]_vars

\* C23 witness: the write of the file has failed after the insert: a row
\* without a file, and screenshot_error as the latest event.
C23_Witness ==
  /\ \E i \in 1..Len(screenshots) : i \notin archive
  /\ capture_event = ScreenshotError

\* C24: is_session_active is true only while a session is open: whenever
\* the flag is true and no start() or stop() is in progress, the current
\* session id names a persisted row whose end_time is unset.
SessionCommandInProgress ==
  \E c \in Callers :
    cpc[c] \in {"start_lock", "start_reset_keys", "start_reset_clicks",
                "start_enable", "start_session", "start_insert", "start_spawn",
                "stop_lock", "stop_disable", "stop_load_keys", "stop_load_clicks",
                "stop_update", "stop_take", "stop_send"}

C24_FlagOnlyWhileSessionOpen ==
  is_session_active /\ ~SessionCommandInProgress
    => current_session_id \in OpenSessions

\* A step of pause() or resume(), their invocation included.
PauseResumeActs ==
  \E c \in Callers :
    /\ cpc'[c] # cpc[c]
    /\ \/ cpc[c] \in {"pause_lock", "pause_tx", "pause_send", "pause_relock",
                      "pause_force", "resume_lock", "resume_tx", "resume_send",
                      "resume_relock", "resume_force"}
       \/ cpc'[c] \in {"pause_lock", "resume_lock"}

\* A step in which a timer_task receives Pause or Resume or applies it.
TaskHandlesPauseResume ==
  \E t \in SessionIds :
    /\ tpc'[t] # tpc[t]
    /\ \/ tpc[t] \in {"top", "sleep"} /\ TryRecv(t) \in {"Pause", "Resume"}
       \/ tpc[t] \in {"lock", "write", "emit"} /\ tpend[t] \in {"Paused", "Running"}

\* C25: pausing does not suspend the collection of activity: pause(),
\* resume() and timer_task's handling of Pause and Resume leave
\* is_session_active and both counters unchanged, and the listener decides
\* by the flag alone, so an event observed while the status is Paused is
\* counted as one observed while Running.
C25_PauseKeepsCounting ==
  [][/\ PauseResumeActs \/ TaskHandlesPauseResume => UNCHANGED actVars
     /\ events' # events => (lpc' = "add" <=> is_session_active)
     /\ lpc = "add" /\ lpc' = "wait" =>
          key_presses' + mouse_clicks' =
            key_presses + mouse_clicks
              + (IF events[Len(events)].kind = "Other" THEN 0 ELSE 1)]_vars

\* C25 witness: pause() has returned and been applied, the flag is still
\* true, and the listener is at the fetch_add of an event: it counts it
\* while the status is Paused.
C25_Witness ==
  /\ timer_status = "Paused"
  /\ is_session_active
  /\ lpc = "add"
  /\ Idle

\* C26: pause() and resume() do not write the status when their command is
\* sent: the status they checked is the status at their return, and the
\* status becomes Paused, or Running again after Paused, only in the step
\* of a timer_task that applies the command it has received.
C26_HandlersLeaveStatusToScheduler ==
  [][/\ \A c \in Callers : \A op \in {"pause", "resume"} :
          cpc[c] = op \o "_send" /\ cpc'[c] = "idle" /\ cres'[c] = "Ok" =>
            /\ timer_status = Required(op)
            /\ timer_status' = timer_status
     /\ \/ timer_status # "Paused" /\ timer_status' = "Paused"
        \/ timer_status = "Paused" /\ timer_status' = "Running"
        => \E t \in SessionIds :
              /\ tpc[t] = "write" /\ tpc'[t] = "emit"
              /\ tpend[t] = timer_status']_vars

\* C26 witness: pause() has returned Ok, its Pause is buffered, and the
\* status is still Running.
C26_Witness ==
  /\ Idle
  /\ \E c \in Callers : cres[c] = "Ok"
  /\ timer_status = "Running"
  /\ \E t \in SessionIds : Buffered(t, "Pause")

\* A handler that holds the timer_status lock waits in tx.send for room in
\* the queue of timer_task t, which waits for that lock to apply the
\* command it has received.
WaitCycle(c, t) ==
  /\ SuspendedOnQueue(c)
  /\ SendTarget(c) = t
  /\ Holds(Proc(c))
  /\ tpc[t] = "write"
  /\ ~Holds(TaskProc(t))

\* C27: the system never deadlocks: in no state does an operation that
\* holds the status lock wait for room in the command queue while the
\* scheduler waits for the status lock.
C27_NoWaitCycle ==
  \A c \in Callers : \A t \in SessionIds : ~WaitCycle(c, t)

====
